---------------------------- MODULE Spec2Model ----------------------------
(***************************************************************************)
(* A model of the YouTube link extractor: the string cleaning and the      *)
(* asymmetric token distance of data_helpers.py, the candidate scan and    *)
(* its retry wrapper of extraction_helpers.py, and the thread-pool run of  *)
(* main.py with its shared progress counters and its resume-aware load     *)
(* and save.                                                               *)
(*                                                                         *)
(* Strings are sequences of one-character strings.  Distances and          *)
(* confidences are exact rationals held as integers in units of 1/Scale.   *)
(***************************************************************************)
EXTENDS Integers, Sequences, FiniteSets, TLC

(***************************************************************************)
(* Characters                                                              *)
(***************************************************************************)
LowerLetters == {"a", "b", "c", "d", "e", "f", "g", "h", "i", "j", "k", "l", "m",
                 "n", "o", "p", "q", "r", "s", "t", "u", "v", "w", "x", "y", "z"}

UpperLetters == {"A", "B", "C", "D", "E", "F", "G", "H", "I", "J", "K", "L", "M",
                 "N", "O", "P", "Q", "R", "S", "T", "U", "V", "W", "X", "Y", "Z"}

Digits == {"0", "1", "2", "3", "4", "5", "6", "7", "8", "9"}

\* The characters the last character class of cs keeps (the ASCII part; the
\* model's alphabet holds no Hangul, kana, CJK, Cyrillic or Thai character).
AllowedChars == LowerLetters \cup UpperLetters \cup Digits \cup {" "}

Openers == {"(", "["}

Closers == {")", "]"}

\* str.lower() on one character.
LowerPairs == {<<"A", "a">>, <<"B", "b">>, <<"C", "c">>, <<"D", "d">>, <<"E", "e">>,
               <<"F", "f">>, <<"G", "g">>, <<"H", "h">>, <<"I", "i">>, <<"J", "j">>,
               <<"K", "k">>, <<"L", "l">>, <<"M", "m">>, <<"N", "n">>, <<"O", "o">>,
               <<"P", "p">>, <<"Q", "q">>, <<"R", "r">>, <<"S", "s">>, <<"T", "t">>,
               <<"U", "u">>, <<"V", "v">>, <<"W", "w">>, <<"X", "x">>, <<"Y", "y">>,
               <<"Z", "z">>, <<"É", "é">>}

LowerChar(c) ==
    IF \E p \in LowerPairs : p[1] = c
    THEN (CHOOSE p \in LowerPairs : p[1] = c)[2]
    ELSE c

\* NFD decomposition with the combining marks (category Mn) dropped, on one
\* character: an accented letter becomes its base letter.
AccentPairs == {<<"é", "e">>, <<"É", "E">>, <<"ü", "u">>, <<"ñ", "n">>}

remove_accents_char(c) ==
    IF \E p \in AccentPairs : p[1] = c
    THEN (CHOOSE p \in AccentPairs : p[1] = c)[2]
    ELSE c

(***************************************************************************)
(* String helpers (Python's str and re operations used by the cleaners)    *)
(***************************************************************************)
\* str.lower()
Lower(s) == [i \in 1..Len(s) |-> LowerChar(s[i])]

\* remove_accents(s)
remove_accents(s) == [i \in 1..Len(s) |-> remove_accents_char(s[i])]

\* re.match of a literal pattern at position i of s; "." in the pattern
\* matches any character (the alphabet holds no newline).
MatchesAt(pat, s, i) ==
    /\ i + Len(pat) - 1 <= Len(s)
    /\ \A k \in 1..Len(pat) : pat[k] = "." \/ pat[k] = s[i + k - 1]

\* re.sub(pat, rep, s) for a pattern without repetition: leftmost,
\* non-overlapping matches, scanned once from left to right.
RECURSIVE SubFrom(_, _, _, _)
SubFrom(pat, rep, s, i) ==
    IF i > Len(s) THEN <<>>
    ELSE IF MatchesAt(pat, s, i)
         THEN rep \o SubFrom(pat, rep, s, i + Len(pat))
         ELSE <<s[i]>> \o SubFrom(pat, rep, s, i + 1)

ReSub(pat, rep, s) == SubFrom(pat, rep, s, 1)

\* str.replace(old, new) for a one-character old.
ReplaceChar(old, new, s) == [i \in 1..Len(s) |-> IF s[i] = old THEN new ELSE s[i]]

\* re.sub("[\(\[].*?[\)\]]", " ", s): from the leftmost opener that has a
\* closer after it, up to the nearest closer, becomes one space; the scan
\* goes on after the closer.
RECURSIVE StripBracketsFrom(_, _)
StripBracketsFrom(s, i) ==
    IF i > Len(s) THEN <<>>
    ELSE IF s[i] \in Openers /\ \E j \in (i + 1)..Len(s) : s[j] \in Closers
         THEN LET j == CHOOSE j \in (i + 1)..Len(s) :
                          /\ s[j] \in Closers
                          /\ \A k \in (i + 1)..(j - 1) : s[k] \notin Closers
              IN <<" ">> \o StripBracketsFrom(s, j + 1)
         ELSE <<s[i]>> \o StripBracketsFrom(s, i + 1)

StripBrackets(s) == StripBracketsFrom(s, 1)

\* re.sub(cls + '+', ' ', s): every maximal run of characters of Bad
\* becomes one space.
RECURSIVE RunsToSpaceFrom(_, _, _)
RunsToSpaceFrom(Bad, s, i) ==
    IF i > Len(s) THEN <<>>
    ELSE IF s[i] \in Bad
         THEN IF i > 1 /\ s[i - 1] \in Bad
              THEN RunsToSpaceFrom(Bad, s, i + 1)
              ELSE <<" ">> \o RunsToSpaceFrom(Bad, s, i + 1)
         ELSE <<s[i]>> \o RunsToSpaceFrom(Bad, s, i + 1)

RunsToSpace(Bad, s) == RunsToSpaceFrom(Bad, s, 1)

\* re.sub(' +', ' ', s)
CollapseSpaces(s) == RunsToSpace({" "}, s)

\* str.strip() (the only whitespace of the alphabet is the space).
RECURSIVE LStrip(_)
LStrip(s) == IF s # <<>> /\ Head(s) = " " THEN LStrip(Tail(s)) ELSE s

RECURSIVE RStrip(_)
RStrip(s) ==
    IF s # <<>> /\ s[Len(s)] = " " THEN RStrip(SubSeq(s, 1, Len(s) - 1)) ELSE s

Strip(s) == RStrip(LStrip(s))

\* str.split(): the maximal runs of non-space characters, in order.
RECURSIVE SplitFrom(_, _, _)
SplitFrom(s, i, cur) ==
    IF i > Len(s) THEN (IF cur = <<>> THEN <<>> ELSE <<cur>>)
    ELSE IF s[i] = " "
         THEN (IF cur = <<>> THEN <<>> ELSE <<cur>>) \o SplitFrom(s, i + 1, <<>>)
         ELSE SplitFrom(s, i + 1, Append(cur, s[i]))

Split(s) == SplitFrom(s, 1, <<>>)

\* ' '.join(list)
RECURSIVE Join(_)
Join(l) ==
    IF l = <<>> THEN <<>>
    ELSE IF Len(l) = 1 THEN l[1]
    ELSE l[1] \o <<" ">> \o Join(Tail(l))

\* re.search(token, s) for a token of letters, digits and spaces: the token
\* occurs in s as a contiguous substring (the empty token occurs anywhere).
Contains(s, token) ==
    \E i \in 1..(Len(s) + 1) :
        /\ i + Len(token) - 1 <= Len(s)
        /\ \A k \in 1..Len(token) : token[k] = s[i + k - 1]

\* [x for x in l if x in S]
RECURSIVE KeepIn(_, _)
KeepIn(l, S) ==
    IF l = <<>> THEN <<>>
    ELSE (IF Head(l) \in S THEN <<Head(l)>> ELSE <<>>) \o KeepIn(Tail(l), S)

(***************************************************************************)
(* data_helpers.py: ct, cs, get_asymmetric_token_distance                  *)
(***************************************************************************)
\* Clean title: bracketed spans out, runs of spaces collapsed, trimmed.
ct(input_str) == Strip(CollapseSpaces(StripBrackets(input_str)))

\* Clean string.
cs(input_str) ==
    LET s1 == Lower(input_str)
        s2 == StripBrackets(s1)
        s3 == ReplaceChar(")", " ", ReplaceChar("(", " ",
                  ReplaceChar("]", " ", ReplaceChar("[", " ", s2))))
        s4 == ReplaceChar("&", " ", ReplaceChar("/", " ", s3))
        s5 == remove_accents(s4)
        s6 == ReSub(<<"f", "e", "a", "t", "u", "r", "e", "r", "i", "n", "g">>, <<>>, s5)
        s7 == ReSub(<<"f", "e", "a", "t", "u", "r", "e">>, <<>>, s6)
        s8 == ReSub(<<"f", "e", "a", "t", ".">>, <<>>, s7)
        s9 == ReSub(<<"f", "t", ".">>, <<>>, s8)
        s10 == RunsToSpace({s9[i] : i \in 1..Len(s9)} \ AllowedChars, s9)
    IN Strip(CollapseSpaces(s10))


\* One unit of distance or confidence: the float 1.0 is Scale.
Scale == 600

\* [x for x in token_short if len(x) == 1]
OneLetterTokens(token_short) ==
    KeepIn(token_short, {token_short[i] : i \in {j \in 1..Len(token_short) : Len(token_short[j]) = 1}})

\* The token list the loop runs over: the one-letter tokens are taken out and,
\* if there are any, appended as one space-joined token.
Tokens(str_short) ==
    LET token_short == Split(str_short)
        to_be_joined == OneLetterTokens(token_short)
        joined == {to_be_joined[i] : i \in 1..Len(to_be_joined)}
        kept == KeepIn(token_short, {token_short[i] : i \in 1..Len(token_short)} \ joined)
    IN IF Len(to_be_joined) > 0 THEN Append(kept, Join(to_be_joined)) ELSE kept

\* dist after the loop: 1/len(token_short) for every token not found.
RECURSIVE DistOver(_, _, _)
DistOver(toks, n, str_long) ==
    IF toks = <<>> THEN 0
    ELSE (IF Contains(str_long, Head(toks)) THEN 0 ELSE Scale \div n)
         + DistOver(Tail(toks), n, str_long)

\* <<dist, str_best>>
get_asymmetric_token_distance(str_short, str_long) ==
    LET token_short == Tokens(str_short)
        found == KeepIn(token_short, {token_short[i] : i \in {j \in 1..Len(token_short) :
                                                    Contains(str_long, token_short[j])}})
    IN <<DistOver(token_short, Len(token_short), str_long), Join(found)>>

\* round(x, 2): the nearest multiple of Scale/100, a tie going to the even
\* multiple (the ties the model reaches are exact binary fractions).
Round2(x) ==
    LET u == Scale \div 100
        q == x \div u
        r == x % u
    IN IF 2 * r < u THEN q * u
       ELSE IF 2 * r > u THEN (q + 1) * u
       ELSE IF q % 2 = 0 THEN q * u ELSE (q + 1) * u

(***************************************************************************)
(* Bounds, program constants and the run's environment                     *)
(***************************************************************************)
\* The most rows the input csv files hold.
MaxTracks == 2

\* The most results one search returns (the code asks for at most 15).
MaxResults == 1

\* ThreadPool(10)
PoolWidth == 10

\* stop_after_attempt(5)
MaxAttempts == 5

\* A dict key that is not set: reading it raises KeyError.
NoValue == -1

Absent == <<"<absent>">>

\* The input rows: every row of the model carries the same artists and
\* song_name; rows differ in their isrc.
TrackArtists(isrc) == <<"A", "b">>

TrackSong(isrc) == <<"c", "d", " ", "e", "f", " ", "(", "x", ")", " ", "g", "h">>

\* What the search provider and the metadata provider can return: a search
\* result (url_suffix, title, long_desc, channel; the last three optional) with
\* the metadata of its video (str(meta) as dump, and the duration, optional).
Candidate(c) ==
    CASE c = 1 -> [url_suffix |-> 1, dump |-> <<"a", "b", "/", "c", "d", " ", "e", "f", "&", "g", "h">>,
                   title |-> <<"O", "f", "f", "i", "c", "i", "a", "l">>,
                   long_desc |-> Absent, channel |-> Absent, duration |-> 320]
      [] c = 2 -> [url_suffix |-> 2, dump |-> <<"{", "a", "b", "}">>,
                   title |-> <<"c", "d">>, long_desc |-> <<"e", "f">>,
                   channel |-> Absent, duration |-> 200]
      [] c = 3 -> [url_suffix |-> 3, dump |-> <<"c", "d">>,
                   title |-> Absent, long_desc |-> Absent,
                   channel |-> <<"a", "b", " ", "o", "f", "f", "i", "c", "i", "a", "l">>,
                   duration |-> NoValue]
      [] OTHER -> [url_suffix |-> 4, dump |-> <<"a", "b", " ", "c", "d", " ", "e", "f", " ", "g", "h">>,
                   title |-> Absent, long_desc |-> Absent, channel |-> Absent,
                   duration |-> 900]

CandidateIds == {1, 2, 3, 4}

\* YoutubeSearch(..., max_results).to_dict(): any list of at most max_results
\* of the results the provider holds.
ResultLists(ids, max_results) == UNION {[1..n -> ids] : n \in 0..max_results}

Workers == 1..PoolWidth

VARIABLES
    resume,        \* config.RESUME
    inputIndex,    \* the isrc index of the concatenated input csv files
    outFile,       \* the output csv: readable or not, and its rows
    provider,      \* the search provider in this run: the results it holds and
                   \* the most it returns for one query
    memo,          \* what cleaning and scoring give for every row and result
                   \* of the run (pure functions of them), worked out once
    mainPc,        \* where the main thread is
    tracks,        \* list_of_dict: the rows being processed
    taskQueue,     \* pool.map's tasks no worker has taken yet
    task,          \* per row: queued/running/done, calls made, the call's success
    worker,        \* per pool thread: its position, its row, the attempt number
                   \* and the local variables of the attempt
    lock,          \* the Lock: 0 when free, else the worker holding it
    count,         \* extraction_helpers.count
    total,         \* extraction_helpers.total
    succeeded,     \* extraction_helpers.succeeded
    failed,        \* extraction_helpers.failed
    writes,        \* how many times to_csv has written the output
    call,          \* a call of one of the string functions on its own: the
                   \* function, its arguments and what it returned
    log,           \* the progress reports the process has logged
    restarted      \* whether the program has been started again after a run

vars == <<resume, inputIndex, outFile, provider, memo, mainPc, tracks, taskQueue, task,
          worker, lock, count, total, succeeded, failed, writes, call, log, restarted>>

counters == <<count, total, succeeded, failed>>

env == <<resume, inputIndex, provider, memo, call, restarted>>

(***************************************************************************)
(* Rows, files and the initial states                                      *)
(***************************************************************************)
\* ct(artists + ' ' + song_name + ' official'): the second query, which is
\* also what the row keeps as search_terms.
SearchTerms(isrc) ==
    ct(TrackArtists(isrc) \o <<" ">> \o TrackSong(isrc)
       \o <<" ", "o", "f", "f", "i", "c", "i", "a", "l">>)

\* A row as read from the input: none of the computed keys is set.
InputRow(isrc) ==
    [isrc |-> isrc,
     search_terms |-> Absent, cleaned_artist |-> Absent, cleaned_song_name |-> Absent,
     metadata_artist |-> Absent, artist_dist |-> NoValue,
     metadata_song_name |-> Absent, song_name_dist |-> NoValue,
     youtube_url_confidence |-> NoValue, official |-> Absent,
     youtube_url |-> NoValue, result_idx |-> NoValue]

\* A row an earlier run wrote for isrc: a full match found at index 0.
PriorRow(isrc) ==
    [InputRow(isrc) EXCEPT
        !.search_terms = SearchTerms(isrc),
        !.cleaned_artist = cs(TrackArtists(isrc)),
        !.cleaned_song_name = cs(TrackSong(isrc)),
        !.metadata_artist = cs(TrackArtists(isrc)), !.artist_dist = 0,
        !.metadata_song_name = cs(TrackSong(isrc)), !.song_name_dist = 0,
        !.youtube_url_confidence = Scale, !.youtube_url = 1, !.result_idx = 0]

Keys(rows) == {rows[i].isrc : i \in 1..Len(rows)}

\* The increasing sequence of the elements of a set of numbers.
RECURSIVE SortedSeq(_)
SortedSeq(S) ==
    IF S = {} THEN <<>>
    ELSE LET m == CHOOSE x \in S : \A y \in S : x <= y
         IN <<m>> \o SortedSeq(S \ {m})

\* The output file left by earlier runs: none (or not readable), or the rows
\* of some keys (a run writes only when it has rows, so never an empty file).
PriorFiles ==
    {[readable |-> FALSE, rows |-> <<>>]}
    \cup {[readable |-> TRUE, rows |-> [i \in 1..Len(SortedSeq(P)) |-> PriorRow(SortedSeq(P)[i])]] :
            P \in (SUBSET (1..MaxTracks)) \ {{}}}

IdleWorker == [pc |-> "idle", t |-> 0, attempt |-> 0, results |-> <<>>, idx |-> 0, reg |-> 0]

\* The state of the process before build_dataframe is called.
ProcessStart ==
    /\ mainPc = "start"
    /\ tracks = <<>>
    /\ taskQueue = <<>>
    /\ task = <<>>
    /\ worker = [w \in Workers |-> IdleWorker]
    /\ lock = 0
    /\ count = 0 /\ total = 0 /\ succeeded = 0 /\ failed = 0
    /\ writes = 0
    /\ log = <<>>
    /\ restarted = FALSE

(***************************************************************************)
(* data_helpers.py: build_dataframe, write_dataframe                       *)
(***************************************************************************)
\* df.drop(labels): KeyError when a label is not in the index.
DropRaises(index, labels) == \E l \in labels : \A i \in 1..Len(index) : index[i] # l

DropLabels(index, labels) == KeepIn(index, {index[i] : i \in 1..Len(index)} \ labels)

\* The isrc index build_dataframe ends with.
LoadedIndex(index, res, file) ==
    IF res /\ file.readable /\ ~DropRaises(index, Keys(file.rows))
    THEN DropLabels(index, Keys(file.rows))
    ELSE index

build_dataframe(index, res, file) ==
    LET kept == LoadedIndex(index, res, file)
    IN [i \in 1..Len(kept) |-> InputRow(kept[i])]

\* A save that forgets the prior output.
write_dataframe_NewOnly(list_of_dict, res, file) == list_of_dict

\* The rows write_dataframe hands to to_csv.
write_dataframe(list_of_dict, res, file) ==
    IF res /\ file.readable THEN list_of_dict \o file.rows ELSE list_of_dict

(***************************************************************************)
(* extraction_helpers.py: extract_youtube_link (one pass of the loop body) *)
(***************************************************************************)
\* str(meta) + " " + title + " " + long_desc + " " + channel, a missing
\* field skipped.
MetaString(cand) ==
    cand.dump \o <<" ">>
    \o (IF cand.title # Absent THEN cand.title \o <<" ">> ELSE <<>>)
    \o (IF cand.long_desc # Absent THEN cand.long_desc \o <<" ">> ELSE <<>>)
    \o (IF cand.channel # Absent THEN cand.channel ELSE <<>>)

\* meta['duration'], 0 when the metadata holds none.
Duration(cand) == IF cand.duration = NoValue THEN 0 ELSE cand.duration

\* A cutoff of one hour.
DurationCutoff_Hour == 60 * 60

DurationCutoff == 15 * 60

\* What the loop body computes for one result of the searches for row isrc:
\* the two distances with their matched tokens, whether the cleaned
\* metadata holds "official", and the confidence after the duration filter.
ScoreResult(isrc, cand) ==
    LET meta == cs(MetaString(cand))
        artist == get_asymmetric_token_distance(cs(TrackArtists(isrc)), meta)
        song == get_asymmetric_token_distance(cs(TrackSong(isrc)), meta)
        confidence_score == ((Scale - song[1]) + (Scale - artist[1])) \div 2
    IN [artist_dist |-> artist[1], artist_meta |-> artist[2],
        song_name_dist |-> song[1], song_name_meta |-> song[2],
        check_official |-> Contains(meta, <<"o", "f", "f", "i", "c", "i", "a", "l">>),
        confidence_score |-> IF Duration(cand) >= DurationCutoff THEN 0
                             ELSE confidence_score]

\* ScoreResult and the cleaned strings of a row, for every row and result of
\* the model.
Scores == [isrc \in 1..MaxTracks, c \in CandidateIds |-> ScoreResult(isrc, Candidate(c))]

Cleaned == [isrc \in 1..MaxTracks |->
               [search_terms |-> SearchTerms(isrc),
                cleaned_artist |-> cs(TrackArtists(isrc)),
                cleaned_song_name |-> cs(TrackSong(isrc))]]

\* A run over up to MaxTracks rows whose searches return nothing or the
\* first candidate.  A run that does not resume never reads the output file:
\* it starts with none or with the row of key 1.
InitRun ==
    /\ resume \in BOOLEAN
    /\ inputIndex \in {[i \in 1..n |-> i] : n \in 0..MaxTracks}
    /\ outFile \in PriorFiles
    /\ resume = FALSE => Keys(outFile.rows) \subseteq {1}
    /\ provider = [ids |-> {1}, max_results |-> 1]
    /\ ProcessStart

\* A run over one row whose searches return up to MaxResults of any of the
\* candidates each.
InitRank ==
    /\ resume = FALSE
    /\ inputIndex = <<1>>
    /\ outFile = [readable |-> FALSE, rows |-> <<>>]
    /\ provider = [ids |-> CandidateIds, max_results |-> MaxResults]
    /\ ProcessStart

\* No string function is called on its own.
NoCall == [fn |-> "none", arg |-> <<>>, other |-> <<>>, ret |-> <<>>, n |-> 0]

Init ==
    /\ memo = [scores |-> Scores, cleaned |-> Cleaned]
    /\ call = NoCall
    /\ (InitRun \/ InitRank)

\* A store condition that also takes a result that is only as good.
StoresResult_OrEqual(row, res_idx, confidence_score) ==
    res_idx = 0 \/ confidence_score >= row.youtube_url_confidence

\* A store condition that takes every result.
StoresResult_Last(row, res_idx, confidence_score) == TRUE

\* res_idx == 0 or confidence_score > track["youtube_url_confidence"]
StoresResult(row, res_idx, confidence_score) ==
    res_idx = 0 \/ confidence_score > row.youtube_url_confidence

\* A threshold of 0.9.
GoodEnough_Higher(row) == 10 * row.youtube_url_confidence > 9 * Scale

\* track["youtube_url_confidence"] > 0.8
GoodEnough(row) == 10 * row.youtube_url_confidence > 8 * Scale

\* A loop body that makes the official flag follow the stored result.
ScanResult_FlagFollows(row, res_idx, c) ==
    LET scored == memo.scores[row.isrc, c]
    IN IF res_idx = 0 \/ scored.confidence_score > row.youtube_url_confidence
       THEN [row EXCEPT
                !.metadata_artist = scored.artist_meta,
                !.artist_dist = scored.artist_dist,
                !.metadata_song_name = scored.song_name_meta,
                !.song_name_dist = scored.song_name_dist,
                !.youtube_url_confidence = scored.confidence_score,
                !.official = IF scored.check_official THEN <<"T", "R", "U", "E">> ELSE Absent,
                !.youtube_url = Candidate(c).url_suffix,
                !.result_idx = res_idx]
       ELSE row

\* The row after the loop body has run for result c at index res_idx.
ScanResult(row, res_idx, c) ==
    LET scored == memo.scores[row.isrc, c]
    IN IF StoresResult(row, res_idx, scored.confidence_score)
       THEN [row EXCEPT
                !.metadata_artist = scored.artist_meta,
                !.artist_dist = scored.artist_dist,
                !.metadata_song_name = scored.song_name_meta,
                !.song_name_dist = scored.song_name_dist,
                !.youtube_url_confidence = scored.confidence_score,
                !.official = IF scored.check_official THEN <<"T", "R", "U", "E">> ELSE @,
                !.youtube_url = Candidate(c).url_suffix,
                !.result_idx = res_idx]
       ELSE row

(***************************************************************************)
(* main.py: the main thread                                                *)
(***************************************************************************)
NewTask == [state |-> "queued", calls |-> 0, success |-> "unset"]

\* tracks = build_dataframe(...); with at least one row, the pool is made and
\* pool.map queues one task per row and blocks; with none, the main thread
\* goes straight to the timing report.
Load ==
    /\ mainPc = "start"
    /\ LET list_of_dict == build_dataframe(inputIndex, resume, outFile)
       IN /\ tracks' = list_of_dict
          /\ taskQueue' = [i \in 1..Len(list_of_dict) |-> i]
          /\ task' = [i \in 1..Len(list_of_dict) |-> NewTask]
          /\ mainPc' = IF Len(list_of_dict) > 0 THEN "map" ELSE "report"
    /\ UNCHANGED <<env, outFile, worker, lock, counters, writes, log>>

\* A map that returns as soon as one task has delivered its result.
AllJoined_AnyDone == \E t \in 1..Len(task) : task[t].state = "done"

\* pool.map returns once every task has delivered its result.
AllJoined == \A t \in 1..Len(task) : task[t].state = "done"

MapReturns ==
    /\ mainPc = "map"
    /\ AllJoined
    /\ mainPc' = "write"
    /\ UNCHANGED <<env, outFile, tracks, taskQueue, task, worker, lock, counters, writes, log>>

\* write_dataframe(list_of_dict=tracks, ...)
Write ==
    /\ mainPc = "write"
    /\ outFile' = [readable |-> TRUE, rows |-> write_dataframe(tracks, resume, outFile)]
    /\ writes' = writes + 1
    /\ mainPc' = "report"
    /\ UNCHANGED <<env, tracks, taskQueue, task, worker, lock, counters, log>>

\* execution_time/len(tracks) raises ZeroDivisionError when there is no row.
ReportRaises == Len(tracks) = 0

Report ==
    /\ mainPc = "report"
    /\ mainPc' = IF ReportRaises THEN "crashed" ELSE "done"
    /\ UNCHANGED <<env, outFile, tracks, taskQueue, task, worker, lock, counters, writes, log>>

\* The process is killed from outside before pool.map has returned: what it
\* held in memory is gone, the files stay as they are.
Kill ==
    /\ mainPc \in {"start", "map"}
    /\ mainPc' = "killed"
    /\ tracks' = <<>>
    /\ taskQueue' = <<>>
    /\ task' = <<>>
    /\ worker' = [w \in Workers |-> IdleWorker]
    /\ lock' = 0
    /\ count' = 0 /\ total' = 0 /\ succeeded' = 0 /\ failed' = 0
    /\ UNCHANGED <<env, outFile, writes, log>>

\* The program has ended and is started again, once, over the same input
\* with RESUME = True: a new process, whose build_dataframe reads the output the
\* runs before it have left, and which goes on as after Load.
NextRun ==
    /\ mainPc \in {"done", "crashed"}
    /\ ~restarted
    /\ restarted' = TRUE
    /\ resume' = TRUE
    /\ LET list_of_dict == build_dataframe(inputIndex, TRUE, outFile)
       IN /\ tracks' = list_of_dict
          /\ taskQueue' = [i \in 1..Len(list_of_dict) |-> i]
          /\ task' = [i \in 1..Len(list_of_dict) |-> NewTask]
          /\ mainPc' = IF Len(list_of_dict) > 0 THEN "map" ELSE "report"
    /\ worker' = [w \in Workers |-> IdleWorker]
    /\ lock' = 0
    /\ count' = 0 /\ total' = 0 /\ succeeded' = 0 /\ failed' = 0
    /\ writes' = 0
    /\ log' = <<>>
    /\ UNCHANGED <<inputIndex, provider, memo, call, outFile>>

(***************************************************************************)
(* The pool's threads: perform_extraction around the retried               *)
(* extract_youtube_link                                                    *)
(***************************************************************************)
\* A queue that hands out a task without removing it.
TakeTask_Keeps(queue) == queue

\* The queue after a worker has taken its first task.
TakeTask(queue) == Tail(queue)

\* An idle thread takes the next task and calls perform_extraction, which
\* sets total and starts the first attempt.  The idle threads are
\* interchangeable: the one with the lowest number takes it.
StartTask(w) ==
    /\ mainPc = "map"
    /\ taskQueue # <<>>
    /\ worker[w].pc = "idle"
    /\ \A v \in 1..(w - 1) : worker[v].pc # "idle"
    /\ LET t == Head(taskQueue)
       IN /\ taskQueue' = TakeTask(taskQueue)
          /\ worker' = [worker EXCEPT
                           ![w] = [IdleWorker EXCEPT !.pc = "search", !.t = t, !.attempt = 1]]
          /\ task' = [task EXCEPT ![t].state = "running", ![t].calls = @ + 1]
          /\ total' = Len(tracks)
    /\ UNCHANGED <<env, outFile, mainPc, tracks, lock, count, succeeded, failed, writes, log>>

\* A stop condition that gives up one attempt early.
StopRetrying_OneEarly(attempt_number) == attempt_number >= MaxAttempts - 1

\* stop_after_attempt(5): after this failed attempt no other one is made.
StopRetrying(attempt_number) == attempt_number >= MaxAttempts

\* An attempt of worker w has raised: tenacity calls the function again, or,
\* after the last attempt, raises RetryError, which perform_extraction
\* catches (success = False).
AttemptRaised(w) ==
    LET t == worker[w].t
    IN IF StopRetrying(worker[w].attempt)
       THEN /\ worker' = [worker EXCEPT ![w] = [IdleWorker EXCEPT !.pc = "acquire", !.t = t]]
            /\ task' = [task EXCEPT ![t].success = "false"]
       ELSE /\ worker' = [worker EXCEPT
                             ![w] = [IdleWorker EXCEPT !.pc = "search", !.t = t,
                                                       !.attempt = worker[w].attempt + 1]]
            /\ task' = task

\* One of the two searches raises.
SearchFails(w) ==
    /\ mainPc = "map"
    /\ worker[w].pc = "search"
    /\ AttemptRaised(w)
    /\ UNCHANGED <<env, outFile, mainPc, tracks, taskQueue, lock, counters, writes, log>>

\* Both searches return; the row gets search_terms and the cleaned strings.
Search(w) ==
    /\ mainPc = "map"
    /\ worker[w].pc = "search"
    /\ \E results_1 \in ResultLists(provider.ids, provider.max_results),
          results_2 \in ResultLists(provider.ids, provider.max_results) :
        LET t == worker[w].t
            results == results_1 \o results_2
        IN /\ tracks' = [tracks EXCEPT
                            ![t].search_terms = memo.cleaned[tracks[t].isrc].search_terms,
                            ![t].cleaned_artist = memo.cleaned[tracks[t].isrc].cleaned_artist,
                            ![t].cleaned_song_name = memo.cleaned[tracks[t].isrc].cleaned_song_name]
           /\ worker' = [worker EXCEPT
                            ![w].results = results,
                            ![w].idx = 0,
                            ![w].pc = IF results = <<>> THEN "round" ELSE "scan"]
    /\ UNCHANGED <<env, outFile, mainPc, taskQueue, task, lock, counters, writes, log>>

\* ydl.extract_info raises for the result at idx.
FetchFails(w) ==
    /\ mainPc = "map"
    /\ worker[w].pc = "scan"
    /\ AttemptRaised(w)
    /\ UNCHANGED <<env, outFile, mainPc, tracks, taskQueue, lock, counters, writes, log>>

\* The loop body for the result at idx: fetch, score, store if first or
\* better, and leave the loop when the stored confidence is good enough.
Scan(w) ==
    /\ mainPc = "map"
    /\ worker[w].pc = "scan"
    /\ LET t == worker[w].t
           idx == worker[w].idx
           row == ScanResult(tracks[t], idx, worker[w].results[idx + 1])
       IN /\ tracks' = [tracks EXCEPT ![t] = row]
          /\ worker' = IF idx + 1 >= Len(worker[w].results) \/ GoodEnough(row)
                       THEN [worker EXCEPT ![w].pc = "round", ![w].results = <<>>, ![w].idx = 0]
                       ELSE [worker EXCEPT ![w].idx = idx + 1]
    /\ UNCHANGED <<env, outFile, mainPc, taskQueue, task, lock, counters, writes, log>>

\* track["youtube_url_confidence"] = round(track["youtube_url_confidence"], 2)
\* and return True; KeyError when no confidence has ever been stored.
RoundRaises(row) == row.youtube_url_confidence = NoValue

RoundFails(w) ==
    /\ mainPc = "map"
    /\ worker[w].pc = "round"
    /\ RoundRaises(tracks[worker[w].t])
    /\ AttemptRaised(w)
    /\ UNCHANGED <<env, outFile, mainPc, tracks, taskQueue, lock, counters, writes, log>>

Round(w) ==
    /\ mainPc = "map"
    /\ worker[w].pc = "round"
    /\ LET t == worker[w].t
       IN /\ ~RoundRaises(tracks[t])
          /\ tracks' = [tracks EXCEPT ![t].youtube_url_confidence = Round2(@)]
          /\ task' = [task EXCEPT ![t].success = "true"]
          /\ worker' = [worker EXCEPT ![w] = [IdleWorker EXCEPT !.pc = "acquire", !.t = t]]
    /\ UNCHANGED <<env, outFile, mainPc, taskQueue, lock, counters, writes, log>>

(***************************************************************************)
(* perform_extraction: the counters, under the lock                        *)
(***************************************************************************)
\* A lock whose acquire never blocks.
CanAcquire_NeverBlocks(w) == TRUE

\* lock.acquire() returns only when no thread holds the lock.
CanAcquire(w) == lock = 0

Acquire(w) ==
    /\ mainPc = "map"
    /\ worker[w].pc = "acquire"
    /\ CanAcquire(w)
    /\ lock' = w
    /\ worker' = [worker EXCEPT ![w].pc = "load_count"]
    /\ UNCHANGED <<env, outFile, mainPc, tracks, taskQueue, task, counters, writes, log>>

\* count += 1 reads the global, adds, and writes it back.
LoadCount(w) ==
    /\ mainPc = "map"
    /\ worker[w].pc = "load_count"
    /\ worker' = [worker EXCEPT ![w].reg = count, ![w].pc = "store_count"]
    /\ UNCHANGED <<env, outFile, mainPc, tracks, taskQueue, task, lock, counters, writes, log>>

StoreCount(w) ==
    /\ mainPc = "map"
    /\ worker[w].pc = "store_count"
    /\ count' = worker[w].reg + 1
    /\ worker' = [worker EXCEPT ![w].reg = 0, ![w].pc = "load_outcome"]
    /\ UNCHANGED <<env, outFile, mainPc, tracks, taskQueue, task, lock, total, succeeded,
                   failed, writes, log>>

\* An if that takes the succeeded branch whatever success is.
IsSuccess_Always(t) == TRUE

\* if success: succeeded += 1, else: failed += 1
IsSuccess(t) == task[t].success = "true"

LoadOutcome(w) ==
    /\ mainPc = "map"
    /\ worker[w].pc = "load_outcome"
    /\ worker' = [worker EXCEPT
                     ![w].reg = IF IsSuccess(worker[w].t) THEN succeeded ELSE failed,
                     ![w].pc = "store_outcome"]
    /\ UNCHANGED <<env, outFile, mainPc, tracks, taskQueue, task, lock, counters, writes, log>>

StoreOutcome(w) ==
    /\ mainPc = "map"
    /\ worker[w].pc = "store_outcome"
    /\ IF IsSuccess(worker[w].t)
       THEN succeeded' = worker[w].reg + 1 /\ failed' = failed
       ELSE failed' = worker[w].reg + 1 /\ succeeded' = succeeded
    /\ worker' = [worker EXCEPT ![w].reg = 0, ![w].pc = "release"]
    /\ UNCHANGED <<env, outFile, mainPc, tracks, taskQueue, task, lock, count, total, writes, log>>

\* A progress report after every completion.
SnapshotDue_Every(n) == TRUE

\* if count % 2 == 0
SnapshotDue(n) == n % 2 = 0

\* What the two progress lines report: count, total, the percentage
\* round(100 * count / total, 2) in hundredths, succeeded and failed.
Snapshot ==
    [count |-> count, total |-> total,
     status |-> (2 * 10000 * count + total) \div (2 * total),
     succeeded |-> succeeded, failed |-> failed]

\* The progress lines when count is even, then lock.release(); the call
\* returns and the pool records the task's result.
Release(w) ==
    /\ mainPc = "map"
    /\ worker[w].pc = "release"
    /\ lock' = 0
    /\ task' = [task EXCEPT ![worker[w].t].state = "done"]
    /\ worker' = [worker EXCEPT ![w] = IdleWorker]
    /\ log' = IF SnapshotDue(count) THEN Append(log, Snapshot) ELSE log
    /\ UNCHANGED <<env, outFile, mainPc, tracks, taskQueue, counters, writes>>

(***************************************************************************)
(* The specification                                                       *)
(***************************************************************************)
WorkerStep(w) ==
    \/ StartTask(w)
    \/ SearchFails(w)
    \/ Search(w)
    \/ FetchFails(w)
    \/ Scan(w)
    \/ RoundFails(w)
    \/ Round(w)
    \/ Acquire(w)
    \/ LoadCount(w)
    \/ StoreCount(w)
    \/ LoadOutcome(w)
    \/ StoreOutcome(w)
    \/ Release(w)

Next ==
    \/ Load
    \/ MapReturns
    \/ Write
    \/ Report
    \/ Kill
    \/ NextRun
    \/ \E w \in Workers : WorkerStep(w)

Spec == Init /\ [][Next]_vars

(***************************************************************************)
(* The string functions called on their own                                *)
(***************************************************************************)
\* The longest string a function is called on.
MaxLen == 6

\* The characters of those strings.
StringChars == {"f", "t", " ", "."}

Strings == UNION {[1..n -> StringChars] : n \in 0..MaxLen}

\* Everything but call.
run == <<resume, inputIndex, outFile, provider, memo, mainPc, tracks, taskQueue, task,
         worker, lock, count, total, succeeded, failed, writes, log, restarted>>

\* No run is under way; a string is ready to be passed to a function.
InitStrings ==
    /\ resume = FALSE
    /\ inputIndex = <<>>
    /\ outFile = [readable |-> FALSE, rows |-> <<>>]
    /\ provider = [ids |-> {}, max_results |-> 0]
    /\ memo = [scores |-> <<>>, cleaned |-> <<>>]
    /\ ProcessStart
    /\ call \in {[NoCall EXCEPT !.arg = s] : s \in Strings}

\* cs(arg), and then cs of what that returned.
CallCs ==
    /\ call.fn \in {"none", "cs"}
    /\ call.n < 2
    /\ LET input_str == IF call.n = 0 THEN call.arg ELSE call.ret
       IN call' = [fn |-> "cs", arg |-> input_str, other |-> <<>>,
                   ret |-> cs(input_str), n |-> call.n + 1]
    /\ UNCHANGED run

\* get_asymmetric_token_distance(arg, str_long), str_long being arg itself or
\* the empty string.
CallDistance ==
    /\ call.fn = "none"
    /\ \E str_long \in {call.arg, <<>>} :
          call' = [fn |-> "distance", arg |-> call.arg, other |-> str_long,
                   ret |-> get_asymmetric_token_distance(call.arg, str_long), n |-> 1]
    /\ UNCHANGED run

NextStrings == CallCs \/ CallDistance

SpecStrings == InitStrings /\ [][NextStrings]_vars

(***************************************************************************)
(* Properties                                                              *)
(***************************************************************************)
Range(seq) == {seq[i] : i \in 1..Len(seq)}

TaskIds == 1..Len(task)

DoneTasks == {t \in TaskIds : task[t].state = "done"}

Busy == {w \in Workers : worker[w].pc # "idle"}

InExtract == {w \in Workers : worker[w].pc \in {"search", "scan", "round"}}

\* The main thread has loaded the rows and has neither crashed nor been killed.
Running == mainPc \in {"map", "write", "report", "done"}

\* C1: the counters lose no update and apply none twice: whenever the lock
\* is free, count is the number of calls of perform_extraction that have
\* returned, succeeded and failed are the numbers of those that succeeded
\* and failed (so count = succeeded + failed), and once every task has
\* finished count = total = the number of rows.
C1_CountersExact ==
    Running /\ Len(tracks) >= 1 =>
        /\ lock = 0 =>
            /\ count = succeeded + failed
            /\ count = Cardinality(DoneTasks)
            /\ succeeded = Cardinality({t \in DoneTasks : task[t].success = "true"})
            /\ failed = Cardinality({t \in DoneTasks : task[t].success = "false"})
        /\ AllJoined => lock = 0 /\ count = Len(tracks) /\ total = Len(tracks)

\* Two rows have been processed, one call succeeded and one failed, and both
\* are counted.
C1_Witness ==
    /\ mainPc = "write"
    /\ Len(tracks) >= 2
    /\ count = 2 /\ succeeded = 1 /\ failed = 1

\* C2: when every attempt for a row has failed (the call's success is
\* False), the failure stays in its task: the main thread does not crash, the
\* row was handled by one call, the pool can always go on while pool.map
\* blocks, and once pool.map has returned every row has been processed and
\* counted, the failed ones as failed and the others as succeeded, and the
\* output is written.
C2_FailureIsolated ==
    \A t \in TaskIds :
        task[t].success = "false" =>
            /\ Running
            /\ task[t].calls = 1
            /\ lock = 0 =>
                 failed = Cardinality({u \in DoneTasks : task[u].success = "false"})
            /\ mainPc = "map" => ENABLED (MapReturns \/ \E w \in Workers : WorkerStep(w))
            /\ mainPc # "map" =>
                /\ DoneTasks = TaskIds
                /\ \A u \in TaskIds : task[u].success \in {"true", "false"}
                /\ count = Len(tracks)
                /\ failed = Cardinality({u \in TaskIds : task[u].success = "false"})
                /\ succeeded = Cardinality({u \in TaskIds : task[u].success = "true"})
            /\ mainPc \in {"report", "done"} => writes = 1

\* A run has ended with its output written, one row failed after its last
\* attempt and another row succeeded.
C2_Witness ==
    /\ mainPc = "done"
    /\ writes = 1
    /\ \E t \in TaskIds : task[t].success = "false"
    /\ \E t \in TaskIds : task[t].success = "true"

\* C3: the retried function is attempted at most 5 times for a row: a worker
\* that takes a step inside it is at attempt 1..5; a failed attempt before the 5th is followed
\* by the next attempt and is not reported as a failure; the call is left
\* either by an attempt that returns (success) or by the failure of the 5th
\* attempt (success = False), and then never entered again; none of this
\* moves the main thread.
C3_AttemptStep(w) ==
    LET t == worker[w].t
    IN worker[w].pc \in {"search", "scan", "round"} /\ worker'[w] # worker[w] =>
        /\ worker[w].attempt \in 1..MaxAttempts
        /\ worker'[w].pc = "search" =>
             /\ worker[w].attempt < MaxAttempts
             /\ worker'[w].attempt = worker[w].attempt + 1
             /\ task'[t].success = "unset"
        /\ worker'[w].pc \in {"scan", "round"} =>
             /\ worker'[w].attempt = worker[w].attempt
             /\ task'[t].success = "unset"
        /\ worker'[w].pc = "acquire" =>
             \/ task'[t].success = "true" /\ worker[w].pc = "round"
             \/ task'[t].success = "false" /\ worker[w].attempt = MaxAttempts
        /\ worker'[w].pc \in {"search", "scan", "round", "acquire"}
        /\ mainPc' = mainPc

C3_AfterCall(w) ==
    worker[w].pc \in {"acquire", "load_count", "store_count", "load_outcome",
                      "store_outcome", "release"} =>
        /\ worker'[w].pc \notin {"search", "scan", "round"}
        /\ task'[worker[w].t].success = task[worker[w].t].success
        /\ task[worker[w].t].success \in {"true", "false"}

C3_BoundedRetry ==
    [][mainPc' # "killed" => \A w \in Workers : C3_AttemptStep(w) /\ C3_AfterCall(w)]_vars

\* The 5th attempt for a row has failed and perform_extraction holds
\* success = False for it.
C3_Witness ==
    \E w \in Workers :
        /\ worker[w].pc = "acquire"
        /\ task[worker[w].t].success = "false"

\* C4: after build_dataframe of a resumed run, the rows to dispatch are the
\* input keys minus the keys of the prior output when that output is
\* readable, whatever keys it holds, and all the input keys when it is not.
C4_ResumeLoad ==
    resume /\ mainPc \in {"map", "report"} /\ writes = 0 =>
        Keys(tracks) = IF outFile.readable
                       THEN Range(inputIndex) \ Keys(outFile.rows)
                       ELSE Range(inputIndex)

\* C5: the save of a resumed run completes and writes, when the prior output
\* is readable, every row of this run and every row of the prior output and
\* nothing else, and, when it is not, exactly the rows of this run.
C5_ResumeSave ==
    [][mainPc = "write" /\ mainPc' = "report" /\ resume =>
          /\ outFile'.readable
          /\ writes' = writes + 1
          /\ IF outFile.readable
             THEN /\ \A i \in 1..Len(tracks) :
                        \E j \in 1..Len(outFile'.rows) : outFile'.rows[j] = tracks[i]
                  /\ \A i \in 1..Len(outFile.rows) :
                        \E j \in 1..Len(outFile'.rows) : outFile'.rows[j] = outFile.rows[i]
                  /\ Len(outFile'.rows) = Len(tracks) + Len(outFile.rows)
             ELSE outFile'.rows = tracks]_vars

\* A resumed run has written its rows together with the rows of a readable
\* prior output.
C5_Witness ==
    /\ resume
    /\ writes = 1
    /\ Len(tracks) > 0
    /\ Len(outFile.rows) > Len(tracks)

\* C6: a run with no row to process dispatches no task, writes nothing and
\* gets through its timing report without an exception.
C6_EmptyRun ==
    Len(tracks) = 0 /\ mainPc \in {"report", "done", "crashed"} =>
        /\ task = <<>>
        /\ writes = 0
        /\ mainPc # "crashed"

\* C7: the output changes in one step of a run only, the write, taken after
\* pool.map has returned with every task done, no task queued or running
\* and count = total = the number of rows; the start of another run leaves
\* the output as it is; and a kill, which can come only before the write,
\* finds and leaves the output unwritten.
C7_WriteOnceAfterJoin ==
    [][/\ (writes' # writes \/ outFile' # outFile) /\ restarted' = restarted =>
            /\ mainPc = "write"
            /\ Len(task) = Len(tracks)
            /\ \A t \in TaskIds : task[t].state = "done"
            /\ taskQueue = <<>>
            /\ Busy = {}
            /\ count = total /\ total = Len(tracks)
            /\ writes = 0 /\ writes' = 1
       /\ restarted' # restarted => writes' = 0 /\ outFile' = outFile
       /\ mainPc' = "killed" =>
            /\ writes = 0 /\ writes' = 0
            /\ outFile' = outFile]_vars

\* The output of a run over two rows or more has been written.
C7_Witness ==
    /\ writes = 1
    /\ Len(tracks) >= 2
    /\ mainPc = "report"

\* C8: a row is taken from the queue by one worker and perform_extraction is
\* called for it once: no two busy workers hold the same row, a row is queued
\* until its one call starts and held by a worker exactly while the call
\* runs, and once pool.map has returned every row has had its one call.
C8_OneWorkerPerTrack ==
    /\ \A w \in Busy : \A v \in Busy : w # v => worker[w].t # worker[v].t
    /\ \A w \in Busy : worker[w].t \in TaskIds
    /\ \A t \in TaskIds :
          /\ task[t].calls <= 1
          /\ task[t].calls = 0 <=> task[t].state = "queued"
          /\ task[t].state = "queued" <=> t \in Range(taskQueue)
          /\ task[t].state = "running" <=> \E w \in Busy : worker[w].t = t
    /\ mainPc \in {"write", "report", "done"} /\ Len(tracks) > 0 =>
          \A t \in TaskIds : task[t].calls = 1

\* Two workers are inside extract_youtube_link at the same time.
C8_Witness ==
    \E w \in InExtract : \E v \in InExtract :
        /\ w # v
        /\ worker[w].t # worker[v].t

\* C9: once the output is written, every row of the run that carries a
\* confidence carries one in [0,1] that is a whole number of hundredths,
\* whether its call succeeded or failed.
C9_PersistedConfidence ==
    writes = 1 =>
        \A t \in 1..Len(tracks) :
            tracks[t].youtube_url_confidence # NoValue =>
                /\ tracks[t].youtube_url_confidence >= 0
                /\ tracks[t].youtube_url_confidence <= Scale
                /\ Round2(tracks[t].youtube_url_confidence) = tracks[t].youtube_url_confidence

\* The best-match fields of a row.
BestMatch(row) ==
    <<row.metadata_artist, row.artist_dist, row.metadata_song_name, row.song_name_dist,
      row.youtube_url_confidence, row.official, row.youtube_url, row.result_idx>>

\* Row t carries a confidence and this step, a step of the run, is not after
\* the end of its scans (the rounding, or the failure of the last attempt).
C10_Stored(t) ==
    /\ restarted' = restarted
    /\ Len(tracks') = Len(tracks)
    /\ tracks[t].youtube_url_confidence # NoValue
    /\ task'[t].success = "unset"

\* The confidence of row t does not decrease in this step, and grows if its
\* best-match fields are overwritten.
C10_Grows(t) ==
    /\ tracks'[t].youtube_url_confidence >= tracks[t].youtube_url_confidence
    /\ BestMatch(tracks'[t]) # BestMatch(tracks[t]) =>
          tracks'[t].youtube_url_confidence > tracks[t].youtube_url_confidence

\* C10 as stated: from the moment it is set until the final rounding, the
\* confidence of a row never decreases, and every overwrite of the
\* best-match fields stores a strictly greater one, across candidates, fetch
\* failures and attempts.
C10_NeverDecreases ==
    [][\A t \in 1..Len(tracks) : C10_Stored(t) => C10_Grows(t)]_vars

\* C10: within one attempt the confidence of a row never decreases and every
\* overwrite by a result after the first stores a strictly greater one; the
\* first result of every attempt, a retried one included, is stored whatever
\* the row holds, so its confidence replaces the stored one.
C10_NeverDecreasesInAttempt ==
    [][\A t \in 1..Len(tracks) :
          C10_Stored(t) =>
              IF \E w \in Workers :
                    worker[w].t = t /\ worker[w].pc = "scan" /\ worker[w].idx = 0
              THEN \A w \in Workers :
                      worker[w].t = t /\ worker[w].pc = "scan" =>
                          \/ tracks'[t] = tracks[t]
                          \/ /\ tracks'[t].youtube_url_confidence =
                                   memo.scores[tracks[t].isrc,
                                               worker[w].results[1]].confidence_score
                             /\ tracks'[t].result_idx = 0
              ELSE C10_Grows(t)]_vars

\* In a retried attempt the second result has replaced the first one.
C10_Witness ==
    \E w \in Workers :
        /\ worker[w].pc = "round"
        /\ worker[w].attempt >= 2
        /\ tracks[worker[w].t].result_idx = 1

\* The results of 900 seconds or more.
LongResults == {c \in CandidateIds : Duration(Candidate(c)) >= 900}

\* Worker w runs the loop body for the result at its idx in this step.
ScanStep(w) ==
    /\ worker[w].pc = "scan"
    /\ worker'[w] # worker[w]
    /\ worker'[w].pc \in {"scan", "round"}

IsCleaned(s) ==
    /\ s # <<>>
    /\ \A i \in 1..Len(s) : s[i] \in LowerLetters \cup Digits \cup {" "}
    /\ s[1] # " " /\ s[Len(s)] # " "
    /\ \A i \in 1..(Len(s) - 1) : ~(s[i] = " " /\ s[i + 1] = " ")

\* C12: the distance from a non-empty cleaned string to itself is 0.
C12_SelfDistanceZero ==
    call.fn = "distance" /\ call.other = call.arg /\ IsCleaned(call.arg) =>
        call.ret[1] = 0

\* C13: cs of what cs returned is what cs returned.
C13_StrongCleanIdempotent ==
    call.fn = "cs" /\ call.n = 2 => call.ret = call.arg

\* C14: the scan of an attempt goes past a result only while the stored
\* confidence is at most 0.8; when the stored confidence exceeds 0.8 after
\* the result at idx, that result is the recorded one, the worker leaves the
\* loop, and from there no result is fetched in this attempt; a first result
\* with confidence 1 is recorded at index 0 with both distances 0.
C14_EarlyExit ==
    [][\A w \in Workers :
          LET t == worker[w].t
              idx == worker[w].idx
          IN /\ worker[w].pc = "scan" /\ idx > 0 =>
                   10 * tracks[t].youtube_url_confidence <= 8 * Scale
             /\ ScanStep(w) /\ 10 * tracks'[t].youtube_url_confidence > 8 * Scale =>
                   /\ worker'[w].pc = "round"
                   /\ tracks'[t].result_idx = idx
                   /\ tracks'[t].youtube_url = Candidate(worker[w].results[idx + 1]).url_suffix
                   /\ idx = 0 /\ tracks'[t].youtube_url_confidence = Scale =>
                         tracks'[t].artist_dist = 0 /\ tracks'[t].song_name_dist = 0
             /\ worker[w].pc = "round" => worker'[w].pc # "scan"]_vars

\* The first result matched the row in full: the worker has left the loop
\* with index 0, both distances 0 and confidence 1.
C14_Witness ==
    \E w \in Workers :
        /\ worker[w].pc = "round"
        /\ tracks[worker[w].t].result_idx = 0
        /\ tracks[worker[w].t].artist_dist = 0
        /\ tracks[worker[w].t].song_name_dist = 0
        /\ tracks[worker[w].t].youtube_url_confidence = Scale

\* C15: when the loop of an attempt ends, the row carries the greatest
\* confidence of the results scanned in the attempt and the locator, index,
\* distances and matched tokens of the first scanned result that has it; the
\* return then rounds the confidence and changes nothing else.
C15_BestOfScan ==
    [][\A w \in Workers :
          LET t == worker[w].t
              isrc == tracks[t].isrc
              scanned == SubSeq(worker[w].results, 1, worker[w].idx + 1)
              conf(k) == memo.scores[isrc, scanned[k]].confidence_score
              best == CHOOSE k \in 1..Len(scanned) :
                          /\ \A j \in 1..Len(scanned) : conf(j) <= conf(k)
                          /\ \A j \in 1..(k - 1) : conf(j) < conf(k)
              won == memo.scores[isrc, scanned[best]]
          IN /\ ScanStep(w) /\ worker'[w].pc = "round" =>
                   /\ tracks'[t].youtube_url_confidence = won.confidence_score
                   /\ tracks'[t].result_idx = best - 1
                   /\ tracks'[t].youtube_url = Candidate(scanned[best]).url_suffix
                   /\ tracks'[t].artist_dist = won.artist_dist
                   /\ tracks'[t].song_name_dist = won.song_name_dist
                   /\ tracks'[t].metadata_artist = won.artist_meta
                   /\ tracks'[t].metadata_song_name = won.song_name_meta
             /\ worker[w].pc = "round" /\ worker'[w].pc = "acquire"
                  /\ task'[t].success = "true" =>
                   tracks'[t] = [tracks[t] EXCEPT
                                    !.youtube_url_confidence = Round2(@)]]_vars

\* The loop has ended with the second result recorded: it scored 5/6, the
\* first one less.
C15_Witness ==
    \E w \in Workers :
        /\ worker[w].pc = "round"
        /\ tracks[worker[w].t].result_idx = 1
        /\ tracks[worker[w].t].youtube_url = 2
        /\ 6 * tracks[worker[w].t].youtube_url_confidence = 5 * Scale

\* C16: the official flag of a row changes only to "TRUE", and only in a
\* scan step that records a result whose cleaned metadata holds "official";
\* once "TRUE" it stays "TRUE" through every later result and attempt of
\* the run.
C16_OfficialOnlySet ==
    [][\A t \in 1..Len(tracks) :
          Len(tracks') = Len(tracks) /\ restarted' = restarted =>
             /\ tracks[t].official = <<"T", "R", "U", "E">> =>
                   tracks'[t].official = <<"T", "R", "U", "E">>
             /\ tracks'[t].official # tracks[t].official =>
                   /\ tracks'[t].official = <<"T", "R", "U", "E">>
                   /\ \E w \in Workers :
                         /\ ScanStep(w)
                         /\ worker[w].t = t
                         /\ memo.scores[tracks[t].isrc,
                                        worker[w].results[worker[w].idx + 1]].check_official
                         /\ tracks'[t].result_idx = worker[w].idx
                         /\ tracks'[t].youtube_url =
                               Candidate(worker[w].results[worker[w].idx + 1]).url_suffix]_vars

\* A row is written with the flag set and a recorded result whose metadata
\* does not hold "official".
C16_Witness ==
    /\ writes = 1
    /\ \E t \in 1..Len(tracks) :
          /\ tracks[t].official = <<"T", "R", "U", "E">>
          /\ tracks[t].youtube_url \in CandidateIds
          /\ ~memo.scores[tracks[t].isrc, tracks[t].youtube_url].check_official

\* C18: an attempt in which no search and no fetch has failed returns: the
\* worker that has left the loop, or found no result to loop over, carries a
\* recorded confidence, and its next step returns success with the
\* confidence still recorded, to be counted as succeeded.
C18_ScanReturns ==
    [][\A w \in Workers :
          worker[w].pc = "round" /\ worker'[w] # worker[w] /\ mainPc' # "killed" =>
             /\ tracks[worker[w].t].youtube_url_confidence # NoValue
             /\ worker'[w].pc = "acquire"
             /\ task'[worker[w].t].success = "true"
             /\ tracks'[worker[w].t].youtube_url_confidence # NoValue]_vars

\* C20: the output a resumed run writes holds every isrc at most once.
C20_UniqueKeys ==
    resume /\ outFile.readable =>
        \A i \in 1..Len(outFile.rows) : \A j \in 1..Len(outFile.rows) :
            outFile.rows[i].isrc = outFile.rows[j].isrc => i = j

\* The progress reports logged so far are those of the completions 2, 4, ...
\* in that order, each with count = succeeded + failed and count <= total =
\* the number of rows; while no call holds the lock there is one for every
\* second completion, and once every task has finished there are
\* floor(N/2) of them.
C17_Logged ==
    Running =>
        /\ \A i \in 1..Len(log) :
              /\ log[i].count = 2 * i
              /\ log[i].count = log[i].succeeded + log[i].failed
              /\ log[i].count <= log[i].total
              /\ log[i].total = Len(tracks)
        /\ lock = 0 => Len(log) = count \div 2
        /\ mainPc # "map" => Len(log) = Len(tracks) \div 2

C19_FailedNotRedone ==
    [][/\ mainPc = "write" /\ mainPc' = "report" =>
             \A t \in 1..Len(tracks) :
                 \E i \in 1..Len(outFile'.rows) : outFile'.rows[i] = tracks[t]
       /\ restarted' # restarted =>
             \A t \in 1..Len(task) :
                 task[t].success = "false" =>
                     /\ tracks[t].isrc \in Keys(outFile.rows)
                     /\ tracks[t].isrc \notin Keys(tracks')]_vars

=============================================================================
